---------------------------- MODULE Spec2Model ----------------------------
(***************************************************************************)
(* A model of parse_xml.py (burpy): the conversion of a Burp Intruder XML  *)
(* export into an HTML report.                                             *)
(*                                                                         *)
(* Strings are sequences of Unicode code points (naturals), byte strings   *)
(* are sequences of naturals below 256.  The pure functions of the script  *)
(* (is_likely_base64, try_decode_base64, extract_node_text, add_entry) are *)
(* operators; the script body is the state machine Spec.  The functions    *)
(* are also exercised on their own by SpecClassify, SpecDecode,            *)
(* SpecRoundTrip and SpecExtract, which draw an argument and call them.    *)
(***************************************************************************)
EXTENDS Integers, Sequences, FiniteSets, TLC

VARIABLES
    pc,         \* position of the script / of the function call
    argc,       \* number of positional command-line arguments (len(sys.argv) - 1)
    xml,        \* the document held by the input file (what line 72 reads)
    soup,       \* soup_xml: the parent of every element of the parsed tree
    entries,    \* the children appended to the report's container
    stdout,     \* lines printed to standard output
    stderr,     \* lines printed to standard error
    exitCode,   \* exit status of the process, -1 while it runs
    err,        \* the call whose exception ended the run, "none" if none
    opened,     \* the files the run has opened so far
    outfile,    \* the content of the output file, <<>> when never written
    b,          \* SpecRoundTrip: the byte string that is encoded
    arg,        \* the argument of the function under call
    ret         \* the value the called function returned

progVars == <<argc, xml, soup, entries, stdout, stderr, exitCode, err, opened, outfile>>
callVars == <<b, arg, ret>>
vars == <<pc, argc, xml, soup, entries, stdout, stderr, exitCode, err, opened,
          outfile, b, arg, ret>>

(***************************************************************************)
(* Bounds of the model.                                                    *)
(***************************************************************************)
MaxRun == 8         \* longest run of one Base64 letter in a classifier input
MaxStr == 5         \* longest decoder input
MaxBytes == 3       \* longest byte string that is encoded and decoded back
MaxChunks == 2      \* most text segments (node.strings) of one node
MaxNodes == 3       \* most elements of a document
MaxArgs == 3        \* most positional command-line arguments

(***************************************************************************)
(* Generic helpers on sequences.                                           *)
(***************************************************************************)
Max(x, y) == IF x >= y THEN x ELSE y

Min(x, y) == IF x <= y THEN x ELSE y

RECURSIVE Flatten(_)
Flatten(ss) == IF ss = <<>> THEN <<>> ELSE Head(ss) \o Flatten(Tail(ss))

RECURSIVE SeqsUpTo(_, _)
SeqsUpTo(S, n) ==
    IF n = 0 THEN {<<>>}
    ELSE LET prev == SeqsUpTo(S, n - 1)
         IN  prev \cup {Append(s, x) : s \in {t \in prev : Len(t) = n - 1}, x \in S}

\* the number of characters of s that lie in S
CountIn(s, S) == Cardinality({i \in 1..Len(s) : s[i] \in S})

Rep(c, n) == [i \in 1..n |-> c]

(***************************************************************************)
(* Character classes.                                                      *)
(***************************************************************************)
\* [A-Za-z0-9+/]: the data characters of the Base64 alphabet
IsB64Data(c) == \/ c \in 65..90
                \/ c \in 97..122
                \/ c \in 48..57
                \/ c = 43
                \/ c = 47

\* "="
IsPad(c) == c = 61

\* [A-Za-z0-9+/=], the class of line 31
IsB64Char(c) == IsB64Data(c) \/ IsPad(c)

B64Chars == (65..90) \cup (97..122) \cup (48..57) \cup {43, 47, 61}

\* Python's whitespace: what str.strip() removes and what \s matches in a str
\* pattern (both use the Unicode White_Space set plus 0x1c..0x1f).
IsSpace(c) == \/ c \in 9..13
              \/ c \in 28..32
              \/ c \in {133, 160, 5760, 8232, 8233, 8239, 8287, 12288}
              \/ c \in 8192..8202

\* the sextet a data character stands for (binascii's table_a2b_base64)
B64Val(c) == IF c \in 65..90 THEN c - 65
             ELSE IF c \in 97..122 THEN c - 97 + 26
             ELSE IF c \in 48..57 THEN c - 48 + 52
             ELSE IF c = 43 THEN 62
             ELSE 63

\* the data character of a sextet (the table of base64.b64encode)
B64Chr(v) == IF v < 26 THEN 65 + v
             ELSE IF v < 52 THEN 97 + (v - 26)
             ELSE IF v < 62 THEN 48 + (v - 52)
             ELSE IF v = 62 THEN 43
             ELSE 47

(***************************************************************************)
(* str.strip(), str.replace(c, ""), re.sub(r'\s+', '', s), str.lower().    *)
(***************************************************************************)
RECURSIVE LStrip(_)
LStrip(s) == IF s # <<>> /\ IsSpace(Head(s)) THEN LStrip(Tail(s)) ELSE s

RECURSIVE RStrip(_)
RStrip(s) == IF s # <<>> /\ IsSpace(s[Len(s)])
             THEN RStrip(SubSeq(s, 1, Len(s) - 1))
             ELSE s

Strip(s) == RStrip(LStrip(s))

Remove(s, c) == SelectSeq(s, LAMBDA x : x # c)

RemoveSpace(s) == SelectSeq(s, LAMBDA x : ~IsSpace(x))

Lower(s) == [i \in 1..Len(s) |-> IF s[i] \in 65..90 THEN s[i] + 32 ELSE s[i]]

(***************************************************************************)
(* is_likely_base64 (lines 22-33).                                         *)
(***************************************************************************)
\* re.fullmatch(r'[A-Za-z0-9+/=\s\r\n]+', s)
FullMatchB64OrSpace(s) ==
    /\ Len(s) >= 1
    /\ \A i \in 1..Len(s) : IsB64Char(s[i]) \/ IsSpace(s[i])

\* a variant of is_likely_base64 whose length test drops every whitespace
\* character, not only LF and CR
is_likely_base64_AllSpace(s0) ==
    LET s == Strip(s0)
    IN  IF s = <<>> THEN FALSE
        ELSE IF Len(s) < 8 THEN FALSE
        ELSE IF /\ FullMatchB64OrSpace(s)
                /\ Len(RemoveSpace(s)) % 4 = 0
             THEN LET valid_chars == CountIn(s, B64Chars)
                  IN  10 * valid_chars > 9 * Max(1, Len(s))
             ELSE FALSE

is_likely_base64(s0) ==
    LET s == Strip(s0)
    IN  IF s = <<>> THEN FALSE
        ELSE IF Len(s) < 8 THEN FALSE
        ELSE IF /\ FullMatchB64OrSpace(s)
                /\ Len(Remove(Remove(s, 10), 13)) % 4 = 0
             THEN LET valid_chars == CountIn(s, B64Chars)
                      \* valid_chars / max(1, len(s)) > 0.9
                  IN  10 * valid_chars > 9 * Max(1, Len(s))
             ELSE FALSE

(***************************************************************************)
(* base64.b64decode(s, validate=True) on a str: the argument must be       *)
(* ASCII, then binascii.a2b_base64 runs in strict mode.  The result is     *)
(* [ok, bytes]; ok = FALSE stands for the exception raised                 *)
(* (ValueError or binascii.Error).                                         *)
(***************************************************************************)
Failed == [ok |-> FALSE, bytes |-> <<>>]

RECURSIVE A2B(_, _, _, _, _, _, _)
A2B(s, i, quad_pos, leftchar, pads, padding_started, out) ==
    IF i > Len(s)
    THEN IF quad_pos # 0 THEN Failed ELSE [ok |-> TRUE, bytes |-> out]
    ELSE LET c == s[i] IN
         IF IsPad(c)
         THEN IF quad_pos >= 2 /\ quad_pos + pads + 1 >= 4
              THEN IF i + 1 <= Len(s)
                   THEN Failed             \* Excess data after padding
                   ELSE [ok |-> TRUE, bytes |-> out]
              ELSE A2B(s, i + 1, quad_pos, leftchar,
                       IF quad_pos >= 2 THEN pads + 1 ELSE pads, TRUE, out)
         ELSE IF ~IsB64Data(c) THEN Failed  \* Only base64 data is allowed
         ELSE IF padding_started THEN Failed \* Discontinuous padding
         ELSE LET v == B64Val(c) IN
              CASE quad_pos = 0 -> A2B(s, i + 1, 1, v, 0, FALSE, out)
                [] quad_pos = 1 ->
                     A2B(s, i + 1, 2, v % 16, 0, FALSE,
                         Append(out, (leftchar * 4 + v \div 16) % 256))
                [] quad_pos = 2 ->
                     A2B(s, i + 1, 3, v % 4, 0, FALSE,
                         Append(out, (leftchar * 16 + v \div 4) % 256))
                [] OTHER ->
                     A2B(s, i + 1, 0, 0, 0, FALSE,
                         Append(out, (leftchar * 64 + v) % 256))

\* a variant of b64decode without validate=True: characters outside the
\* alphabet are discarded before decoding
b64decode_Lenient(s) ==
    IF \E i \in 1..Len(s) : s[i] >= 128 THEN Failed
    ELSE A2B(SelectSeq(s, IsB64Char), 1, 0, 0, 0, FALSE, <<>>)

b64decode(s) ==
    IF \E i \in 1..Len(s) : s[i] >= 128 THEN Failed   \* not ASCII
    ELSE IF s # <<>> /\ IsPad(s[1]) THEN Failed       \* Leading padding
    ELSE A2B(s, 1, 0, 0, 0, FALSE, <<>>)

(***************************************************************************)
(* bytes.decode('utf-8'): strict UTF-8.  [ok, text]; ok = FALSE stands for *)
(* UnicodeDecodeError.                                                     *)
(***************************************************************************)
IsCont(x) == x \in 128..191

RECURSIVE Utf8(_, _, _)
Utf8(bs, i, out) ==
    LET n == Len(bs)
        bad == [ok |-> FALSE, text |-> <<>>]
    IN
    IF i > n THEN [ok |-> TRUE, text |-> out]
    ELSE LET c == bs[i] IN
         IF c < 128 THEN Utf8(bs, i + 1, Append(out, c))
         ELSE IF c \in 194..223
         THEN IF i + 1 <= n /\ IsCont(bs[i + 1])
              THEN Utf8(bs, i + 2, Append(out, (c - 192) * 64 + (bs[i + 1] - 128)))
              ELSE bad
         ELSE IF c \in 224..239
         THEN IF /\ i + 2 <= n
                 /\ IsCont(bs[i + 1])
                 /\ IsCont(bs[i + 2])
                 /\ (c = 224 => bs[i + 1] >= 160)     \* no overlong form
                 /\ (c = 237 => bs[i + 1] <= 159)     \* no surrogate
              THEN Utf8(bs, i + 3,
                        Append(out, (c - 224) * 4096 + (bs[i + 1] - 128) * 64
                                    + (bs[i + 2] - 128)))
              ELSE bad
         ELSE IF c \in 240..244
         THEN IF /\ i + 3 <= n
                 /\ IsCont(bs[i + 1])
                 /\ IsCont(bs[i + 2])
                 /\ IsCont(bs[i + 3])
                 /\ (c = 240 => bs[i + 1] >= 144)     \* no overlong form
                 /\ (c = 244 => bs[i + 1] <= 143)     \* at most U+10FFFF
              THEN Utf8(bs, i + 4,
                        Append(out, (c - 240) * 262144 + (bs[i + 1] - 128) * 4096
                                    + (bs[i + 2] - 128) * 64 + (bs[i + 3] - 128)))
              ELSE bad
         ELSE bad

utf8_decode(bs) == Utf8(bs, 1, <<>>)

(***************************************************************************)
(* bytes.hex(): two lowercase hexadecimal digits per byte.                 *)
(***************************************************************************)
HexDigitUpper(d) == IF d < 10 THEN 48 + d ELSE 65 + (d - 10)

HexDigit(d) == IF d < 10 THEN 48 + d ELSE 97 + (d - 10)

\* a variant of hex that writes uppercase digits
hex_Upper(bs) == [i \in 1..(2 * Len(bs)) |->
                    IF i % 2 = 1 THEN HexDigitUpper(bs[(i + 1) \div 2] \div 16)
                                 ELSE HexDigitUpper(bs[i \div 2] % 16)]

hex(bs) == [i \in 1..(2 * Len(bs)) |->
              IF i % 2 = 1 THEN HexDigit(bs[(i + 1) \div 2] \div 16)
                           ELSE HexDigit(bs[i \div 2] % 16)]

(***************************************************************************)
(* try_decode_base64 (lines 35-45).  A payload is [text, kind].            *)
(***************************************************************************)
Payload(text, kind) == [text |-> text, kind |-> kind]

\* a variant of try_decode_base64 that returns the whitespace-stripped copy
\* on failure
try_decode_base64_ReturnsClean(s) ==
    LET s_clean == RemoveSpace(s)
        d == b64decode(s_clean)
    IN  IF d.ok
        THEN LET t == utf8_decode(d.bytes)
             IN  IF t.ok THEN Payload(t.text, "text")
                         ELSE Payload(hex(d.bytes), "hex")
        ELSE Payload(s_clean, "raw")

try_decode_base64(s) ==
    LET s_clean == RemoveSpace(s)
        d == b64decode(s_clean)
    IN  IF d.ok
        THEN LET t == utf8_decode(d.bytes)
             IN  IF t.ok THEN Payload(t.text, "text")
                         ELSE Payload(hex(d.bytes), "hex")
        ELSE Payload(s, "raw")

(***************************************************************************)
(* extract_node_text (lines 47-68).  A node is [null, enc, strings]:       *)
(* null for Python's None, enc the value of node.get('encoding') and       *)
(* strings the text segments node.strings yields.  None is <<>>, a value   *)
(* x that is present is <<x>>.                                             *)
(***************************************************************************)
None == <<>>

Some(x) == <<x>>

\* the (None, None) pair of line 49
NullPayload == [text |-> <<>>, kind |-> "None"]

S_base64 == <<98, 97, 115, 101, 54, 52>>

NullNode == [null |-> TRUE, enc |-> None, strings |-> <<>>]

Node(enc, strings) == [null |-> FALSE, enc |-> enc, strings |-> strings]

\* a variant of DeclaresBase64 that compares without lower()
DeclaresBase64_CaseSensitive(enc_attr) ==
    /\ enc_attr # None
    /\ enc_attr[1] # <<>>
    /\ enc_attr[1] = S_base64

\* enc_attr and enc_attr.lower() == 'base64'
DeclaresBase64(enc_attr) ==
    /\ enc_attr # None
    /\ enc_attr[1] # <<>>
    /\ Lower(enc_attr[1]) = S_base64

extract_node_text(node) ==
    IF node.null THEN NullPayload
    ELSE LET raw == Flatten(node.strings) IN
         IF DeclaresBase64(node.enc) THEN try_decode_base64(raw)
         ELSE IF is_likely_base64(raw) THEN try_decode_base64(raw)
         ELSE Payload(Strip(raw), "text")

(***************************************************************************)
(* The state of the script before it starts, and of a function call        *)
(* before an argument is drawn.                                            *)
(***************************************************************************)
ProgIdle ==
    /\ argc = 0
    /\ xml = <<>>
    /\ soup = <<>>
    /\ entries = <<>>
    /\ stdout = <<>>
    /\ stderr = <<>>
    /\ exitCode = -1
    /\ err = "none"
    /\ opened = {}
    /\ outfile = None

NoResult == [text |-> <<>>, kind |-> "pending"]

(***************************************************************************)
(* SpecClassify: is_likely_base64 on a drawn string.  The inputs are two   *)
(* runs of the letter A, each followed by one of the Specials, and a tail  *)
(* of at most one more A.                                                  *)
(***************************************************************************)
Specials == { <<>>, <<61>>, <<32>>, <<10>>, <<13>>, <<9>>, <<33>>, <<47>>, <<160>> }

ClassifyInputs ==
    { Rep(65, i) \o x \o Rep(65, j) \o y \o Rep(65, k) :
        i \in 0..MaxRun, j \in 0..MaxRun, k \in 0..1, x \in Specials, y \in Specials }

InitClassify ==
    /\ ProgIdle
    /\ pc = "call"
    /\ b = <<>>
    /\ arg \in ClassifyInputs
    /\ ret = FALSE

CallClassify ==
    /\ pc = "call"
    /\ ret' = is_likely_base64(arg)
    /\ pc' = "ret"
    /\ UNCHANGED <<progVars, b, arg>>

SpecClassify == InitClassify /\ [][CallClassify]_vars

(***************************************************************************)
(* SpecDecode: try_decode_base64 on a drawn string.                        *)
(***************************************************************************)
\* Q w / = space ! e-acute no-break-space
DecodeChars == {81, 119, 47, 61, 32, 33, 233, 160}

InitDecode ==
    /\ ProgIdle
    /\ pc = "call"
    /\ b = <<>>
    /\ arg \in SeqsUpTo(DecodeChars, MaxStr)
    /\ ret = NoResult

CallDecode ==
    /\ pc = "call"
    /\ ret' = try_decode_base64(arg)
    /\ pc' = "ret"
    /\ UNCHANGED <<progVars, b, arg>>

SpecDecode == InitDecode /\ [][CallDecode]_vars

(***************************************************************************)
(* SpecRoundTrip: a drawn byte string is encoded with standard Base64      *)
(* (RFC 4648, what base64.b64encode produces) and handed to                *)
(* try_decode_base64.                                                      *)
(***************************************************************************)
RECURSIVE b64encode(_)
b64encode(bs) ==
    IF bs = <<>> THEN <<>>
    ELSE IF Len(bs) = 1
    THEN <<B64Chr(bs[1] \div 4), B64Chr((bs[1] % 4) * 16), 61, 61>>
    ELSE IF Len(bs) = 2
    THEN <<B64Chr(bs[1] \div 4), B64Chr((bs[1] % 4) * 16 + bs[2] \div 16),
           B64Chr((bs[2] % 16) * 4), 61>>
    ELSE <<B64Chr(bs[1] \div 4), B64Chr((bs[1] % 4) * 16 + bs[2] \div 16),
           B64Chr((bs[2] % 16) * 4 + bs[3] \div 64), B64Chr(bs[3] % 64)>>
         \o b64encode(SubSeq(bs, 4, Len(bs)))

\* A NUL e-acute (C3 A9), euro sign (E2 82 AC), FF, a surrogate lead (ED A0)
ByteChars == {65, 0, 195, 169, 226, 130, 172, 255, 237, 160}

InitRoundTrip ==
    /\ ProgIdle
    /\ pc = "encode"
    /\ b \in SeqsUpTo(ByteChars, MaxBytes)
    /\ arg = <<>>
    /\ ret = NoResult

EncodeBytes ==
    /\ pc = "encode"
    /\ arg' = b64encode(b)
    /\ pc' = "call"
    /\ UNCHANGED <<progVars, b, ret>>

SpecRoundTrip == InitRoundTrip /\ [][EncodeBytes \/ CallDecode]_vars

(***************************************************************************)
(* SpecExtract: extract_node_text on a drawn node.                         *)
(***************************************************************************)
\* "aGVsbG8=" (hello), "not-base64-data!!", "////////" (six bytes FF),
\* "QUJD" (ABC), " \n", "=AAAAAAA" (classified, not decodable)
Chunks == { <<97, 71, 86, 115, 98, 71, 56, 61>>,
            <<110, 111, 116, 45, 98, 97, 115, 101, 54, 52, 45, 100, 97, 116, 97, 33, 33>>,
            <<47, 47, 47, 47, 47, 47, 47, 47>>,
            <<81, 85, 74, 68>>,
            <<32, 10>>,
            <<61, 65, 65, 65, 65, 65, 65, 65>> }

\* absent, "", "base64", "BASE64", "Base64", "base32", "base64 "
EncAttrs == { None, Some(<<>>), Some(S_base64), Some(<<66, 65, 83, 69, 54, 52>>),
              Some(<<66, 97, 115, 101, 54, 52>>), Some(<<98, 97, 115, 101, 51, 50>>),
              Some(<<98, 97, 115, 101, 54, 52, 32>>) }

ExtractInputs ==
    {NullNode} \cup { Node(e, ss) : e \in EncAttrs, ss \in SeqsUpTo(Chunks, MaxChunks) }

InitExtract ==
    /\ ProgIdle
    /\ pc = "call"
    /\ b = <<>>
    /\ arg \in ExtractInputs
    /\ ret = NoResult

CallExtract ==
    /\ pc = "call"
    /\ ret' = extract_node_text(arg)
    /\ pc' = "ret"
    /\ UNCHANGED <<progVars, b, arg>>

SpecExtract == InitExtract /\ [][CallExtract]_vars

(***************************************************************************)
(* The parsed document.  An element is [name, parent, text, enc]; a        *)
(* document lists its elements in document order, parent = 0 for an        *)
(* element at the top of the tree.  An element's own text precedes its     *)
(* child elements.  soup_xml is the parent of every element: the script    *)
(* changes it when wrapper.append moves an element into the wrapper        *)
(* <item> of pair k, whose parent then is -k.                              *)
(***************************************************************************)
Elem(name, text, enc) == [name |-> name, text |-> text, enc |-> enc]

\* "GET /", "aGk=" (hi), "////////" (six bytes FF), "!!", "200", "h"
Templates ==
    { Elem("item", <<>>, None),
      Elem("attackitem", <<>>, None),
      Elem("row", <<>>, None),
      Elem("requestitem", <<>>, None),
      Elem("request", <<71, 69, 84, 32, 47>>, None),
      Elem("request", <<97, 71, 107, 61>>, Some(S_base64)),
      Elem("response", <<47, 47, 47, 47, 47, 47, 47, 47>>, None),
      Elem("response", <<33, 33>>, Some(<<66, 65, 83, 69, 54, 52>>)),
      Elem("status", <<50, 48, 48>>, None),
      Elem("host", <<104>>, None) }

RECURSIVE IsDesc(_, _, _)
\* element n lies below a (an element, or the wrapper -k) under the parents par
IsDesc(par, n, a) == \/ par[n] = a
                     \/ par[n] > 0 /\ IsDesc(par, par[n], a)

\* parents that list the elements in document order: what stands between
\* an element and its parent lies below that parent
IsPreorder(par) ==
    \A k \in 1..Len(par) :
        /\ par[k] < k
        /\ \A j \in (par[k] + 1)..(k - 1) : par[k] = 0 \/ IsDesc(par, j, par[k])

MkDoc(tpl, par) ==
    [i \in 1..Len(par) |-> [name |-> tpl[i].name, parent |-> par[i],
                            text |-> tpl[i].text, enc |-> tpl[i].enc]]

\* xml holds a document of at most n elements
ReadsDoc(f, n, wellformed) ==
    \E m \in 0..n :
        \E par \in [1..m -> 0..(n - 1)] :
            IF IsPreorder(par)
            THEN \E tpl \in [1..m -> Templates] :
                     f = [wellformed |-> wellformed, elems |-> MkDoc(tpl, par)]
            ELSE FALSE

Indices(doc) == [i \in 1..Len(doc) |-> i]

\* n and the elements below it, in document order
Subtree(doc, par, n) ==
    SelectSeq(Indices(doc), LAMBDA m : m = n \/ IsDesc(par, m, n))

\* soup_xml.find_all(name)
find_all(doc, name) == SelectSeq(Indices(doc), LAMBDA m : doc[m].name = name)

\* item.find(name) over the descendants of item, 0 for None
find(doc, desc, name) ==
    LET hits == SelectSeq(desc, LAMBDA m : doc[m].name = name)
    IN  IF hits = <<>> THEN 0 ELSE hits[1]

\* node.strings: the text segments of n and of all it holds
strings(doc, par, n) ==
    LET sub == Subtree(doc, par, n)
    IN  SelectSeq([i \in 1..Len(sub) |-> doc[sub[i]].text], LAMBDA s : s # <<>>)

Children(doc, par, n) == SelectSeq(Indices(doc), LAMBDA m : par[m] = n)

RECURSIVE string(_, _, _)
\* Tag.string: the only child if it is text, its .string if it is a tag
string(doc, par, n) ==
    LET kids == Children(doc, par, n)
        ncontents == (IF doc[n].text # <<>> THEN 1 ELSE 0) + Len(kids)
    IN  IF ncontents # 1 THEN None
        ELSE IF doc[n].text # <<>> THEN Some(doc[n].text)
        ELSE string(doc, par, kids[1])

(***************************************************************************)
(* add_entry (lines 101-156).  item is given by its descendants in         *)
(* document order, which is all that item.find looks at.                   *)
(***************************************************************************)
\* "if pos and pos.string": the text of the first element named so
HeaderField(doc, par, desc, name) ==
    LET n == find(doc, desc, name)
    IN  IF n # 0 /\ string(doc, par, n) # None /\ string(doc, par, n)[1] # <<>>
        THEN string(doc, par, n)
        ELSE None

\* add_block (lines 124-145)
add_block(doc, par, title_text, n) ==
    IF n = 0 THEN None
    ELSE LET p == extract_node_text(Node(doc[n].enc, strings(doc, par, n)))
             enc == doc[n].enc
         IN  Some([title |-> title_text,
                   class |-> IF title_text = "Request" THEN "req" ELSE "resp",
                   badge |-> IF p.kind \notin {"None", "", "text"}
                             THEN Some(p.kind) ELSE None,
                   pre   |-> IF p.kind # "None" THEN p.text ELSE <<>>,
                   note  |-> IF enc # None /\ enc[1] # <<>> THEN enc ELSE None])

add_entry(idx, doc, par, desc) ==
    [ hdr      |-> Some([label    |-> idx,
                         position |-> HeaderField(doc, par, desc, "position"),
                         status   |-> HeaderField(doc, par, desc, "status"),
                         length   |-> HeaderField(doc, par, desc, "length")]),
      request  |-> add_block(doc, par, "Request", find(doc, desc, "request")),
      response |-> add_block(doc, par, "Response", find(doc, desc, "response")),
      host     |-> HeaderField(doc, par, desc, "host"),
      msg      |-> None ]

\* a variant of NoDataEntry that carries the header of a first item
NoDataEntry_Labelled ==
    [ hdr |-> Some([label |-> 1, position |-> None, status |-> None, length |-> None]),
      request |-> None, response |-> None, host |-> None,
      msg |-> Some("No <item> or recognizable request/response pairs found in XML.") ]

\* lines 172-174
NoDataEntry ==
    [ hdr |-> None, request |-> None, response |-> None, host |-> None,
      msg |-> Some("No <item> or recognizable request/response pairs found in XML.") ]

(***************************************************************************)
(* The script body from "Find items" to the end of the loops               *)
(* (lines 158-177).                                                        *)
(***************************************************************************)
\* a variant of FindItems that stops at the first group that is not empty
FindItems_FirstGroup(doc) ==
    IF find_all(doc, "item") # <<>> THEN find_all(doc, "item")
    ELSE IF find_all(doc, "attackitem") # <<>> THEN find_all(doc, "attackitem")
    ELSE IF find_all(doc, "row") # <<>> THEN find_all(doc, "row")
    ELSE find_all(doc, "requestitem")

\* lines 159-161
FindItems(doc) ==
    LET items == find_all(doc, "item")
    IN  IF items = <<>>
        THEN find_all(doc, "attackitem") \o find_all(doc, "row")
             \o find_all(doc, "requestitem")
        ELSE items

\* line 164: list(zip(find_all("request"), find_all("response")))
Pairs(doc) ==
    LET rs == find_all(doc, "request")
        ss == find_all(doc, "response")
    IN  [k \in 1..Min(Len(rs), Len(ss)) |-> <<rs[k], ss[k]>>]

\* lines 167-169: both elements of pair k leave their parents for the wrapper
Wrap(par, k, pair) == [par EXCEPT ![pair[1]] = -k, ![pair[2]] = -k]

RECURSIVE PairLoop(_, _, _, _, _)
\* lines 166-170; yields the entries and the parents the loop leaves behind
PairLoop(doc, par, pairs, k, acc) ==
    IF k > Len(pairs) THEN [entries |-> acc, soup |-> par]
    ELSE LET par2 == Wrap(par, k, pairs[k])
             desc == Subtree(doc, par2, pairs[k][1]) \o Subtree(doc, par2, pairs[k][2])
         IN  PairLoop(doc, par2, pairs, k + 1,
                      Append(acc, add_entry(k, doc, par2, desc)))

\* lines 175-177
ItemLoop(doc, par, items) ==
    [i \in 1..Len(items) |-> add_entry(i, doc, par, Tail(Subtree(doc, par, items[i])))]

(***************************************************************************)
(* The script.                                                             *)
(***************************************************************************)
Init ==
    /\ pc = "start"
    /\ argc \in 0..MaxArgs
    /\ xml = <<>>
    /\ soup = <<>>
    /\ entries = <<>>
    /\ stdout = <<>>
    /\ stderr = <<>>
    /\ exitCode = -1
    /\ err = "none"
    /\ opened = {}
    /\ outfile = None
    /\ b = <<>>
    /\ arg = <<>>
    /\ ret = NoResult

\* an exception nobody catches: traceback on standard error, exit status 1
Crash(e) ==
    /\ err' = e
    /\ stderr' = Append(stderr, "Traceback")
    /\ exitCode' = 1
    /\ pc' = "crashed"

\* lines 15-20
CheckArgs ==
    /\ pc = "start"
    /\ IF argc + 1 # 3
       THEN /\ stdout' = Append(stdout, "Usage")
            /\ exitCode' = 1
            /\ pc' = "exited"
       ELSE /\ pc' = "read"
            /\ UNCHANGED <<stdout, exitCode>>
    /\ UNCHANGED <<argc, xml, soup, entries, stderr, err, opened, outfile, callVars>>

\* lines 71-72: open(infile) and f.read()
ReadInput ==
    /\ pc = "read"
    /\ opened' = opened \cup {"infile"}
    /\ \/ /\ Crash("open(infile)")
          /\ UNCHANGED xml
       \/ /\ \/ ReadsDoc(xml', MaxNodes, TRUE)
             \/ ReadsDoc(xml', 1, FALSE)
          /\ pc' = "parse"
          /\ UNCHANGED <<stderr, exitCode, err>>
    /\ UNCHANGED <<argc, soup, entries, stdout, outfile, callVars>>

\* line 74: BeautifulSoup(xml, "xml")
ParseXml ==
    /\ pc = "parse"
    /\ \/ /\ ~xml.wellformed
          /\ Crash("BeautifulSoup(xml)")
          /\ UNCHANGED soup
       \/ /\ soup' = [i \in 1..Len(xml.elems) |-> xml.elems[i].parent]
          /\ pc' = "render"
          /\ UNCHANGED <<stderr, exitCode, err>>
    /\ UNCHANGED <<argc, xml, entries, stdout, opened, outfile, callVars>>

\* a variant of Render that gives up when the document holds no data
Render_AbortsOnNoData ==
    /\ pc = "render"
    /\ LET doc == xml.elems
           items == FindItems(doc)
           pairs == Pairs(doc)
       IN  IF items # <<>>
           THEN /\ entries' = ItemLoop(doc, soup, items)
                /\ pc' = "write"
                /\ UNCHANGED <<soup, stderr, exitCode, err>>
           ELSE IF pairs # <<>>
           THEN LET r == PairLoop(doc, soup, pairs, 1, <<>>)
                IN  /\ entries' = r.entries
                    /\ soup' = r.soup
                    /\ pc' = "write"
                    /\ UNCHANGED <<stderr, exitCode, err>>
           ELSE /\ Crash("sys.exit")
                /\ UNCHANGED <<entries, soup>>
    /\ UNCHANGED <<argc, xml, stdout, opened, outfile, callVars>>

\* lines 158-177
Render ==
    /\ pc = "render"
    /\ LET doc == xml.elems
           items == FindItems(doc)
           pairs == Pairs(doc)
       IN  IF items # <<>>
           THEN /\ entries' = ItemLoop(doc, soup, items)
                /\ UNCHANGED soup
           ELSE IF pairs # <<>>
           THEN LET r == PairLoop(doc, soup, pairs, 1, <<>>)
                IN  /\ entries' = r.entries
                    /\ soup' = r.soup
           ELSE /\ entries' = <<NoDataEntry>>
                /\ UNCHANGED soup
    /\ pc' = "write"
    /\ UNCHANGED <<argc, xml, stdout, stderr, exitCode, err, opened, outfile, callVars>>

\* lines 179-182
WriteOutput ==
    /\ pc = "write"
    /\ opened' = opened \cup {"outfile"}
    /\ \/ /\ Crash("open(outfile)")
          /\ UNCHANGED <<outfile, stdout>>
       \/ /\ outfile' = Some(entries)
          /\ stdout' = Append(stdout, "Wrote")
          /\ exitCode' = 0
          /\ pc' = "done"
          /\ UNCHANGED <<stderr, err>>
    /\ UNCHANGED <<argc, xml, soup, entries, callVars>>

Next == CheckArgs \/ ReadInput \/ ParseXml \/ Render \/ WriteOutput

Spec == Init /\ [][Next]_vars

(***************************************************************************)
(* The properties.                                                         *)
(***************************************************************************)
IsSpCrLf(c) == c = 32 \/ c = 13 \/ c = 10

\* the four rules as the specification words them
FourRulesAsSpecified(s) ==
    LET t == Strip(s)
    IN  /\ Len(t) >= 8
        /\ \A i \in 1..Len(t) : IsB64Char(t[i]) \/ IsSpCrLf(t[i])
        /\ Len(RemoveSpace(s)) % 4 = 0
        /\ 10 * CountIn(s, B64Chars) > 9 * Len(s)

\* the four rules as the code applies them
FourRulesAsCoded(s) ==
    LET t == Strip(s)
    IN  /\ Len(t) >= 8
        /\ \A i \in 1..Len(t) : IsB64Char(t[i]) \/ IsSpace(t[i])
        /\ (Len(t) - CountIn(t, {10, 13})) % 4 = 0
        /\ 10 * CountIn(t, B64Chars) > 9 * Len(t)

\* C1 as stated: is_likely_base64 returns true exactly when the trimmed
\* length is at least 8, every character of the trimmed string is a Base64
\* character or a space, CR or LF, the length without any whitespace is a
\* multiple of 4, and more than 0.9 of the characters of the untrimmed
\* string are Base64 characters.
C1_AsStated == pc = "ret" => (ret = FourRulesAsSpecified(arg))

\* C1 as amended: is_likely_base64 returns true exactly when the trimmed
\* length is at least 8, every character of the trimmed string is a Base64
\* character or whitespace of any kind, the length of the trimmed string
\* without its CR and LF characters is a multiple of 4, and more than 0.9
\* of the characters of the trimmed string are Base64 characters.
C1_Classify == pc = "ret" => (ret = FourRulesAsCoded(arg))

\* a string with whitespace at an end is classified as Base64
C1_Witness == /\ pc = "ret"
              /\ ret = TRUE
              /\ Strip(arg) # arg
              /\ \E i \in 1..Len(Strip(arg)) : Strip(arg)[i] = 10

HasSpace(s) == \E i \in 1..Len(s) : IsSpace(s[i])

\* C2: try_decode_base64 returns a payload of kind text, hex or raw for
\* every string and lets no exception out, and a raw payload carries the
\* argument as it was passed, whitespace included.
C2_Total ==
    pc = "ret" => /\ ret.kind \in {"text", "hex", "raw"}
                  /\ ret.kind = "raw" => ret.text = arg

\* an argument with whitespace comes back raw
C2_Witness == pc = "ret" /\ ret.kind = "raw" /\ HasSpace(arg) /\ Len(arg) >= 3

\* C3 as stated: a string with a character outside [A-Za-z0-9+/=] comes
\* back unchanged with kind raw.
C3_AsStated ==
    (pc = "ret" /\ \E i \in 1..Len(arg) : ~IsB64Char(arg[i]))
        => ret = Payload(arg, "raw")

\* C3 as amended: a string with a character that is neither whitespace nor
\* in [A-Za-z0-9+/=] comes back unchanged with kind raw.
C3_NonAlphabet ==
    (pc = "ret" /\ \E i \in 1..Len(arg) : ~IsB64Char(arg[i]) /\ ~IsSpace(arg[i]))
        => ret = Payload(arg, "raw")

\* a string that is valid Base64 but for one "!" comes back raw
C3_Witness ==
    /\ pc = "ret"
    /\ ret = Payload(arg, "raw")
    /\ \E i \in 1..Len(arg) : arg[i] = 33
    /\ b64decode(SelectSeq(arg, IsB64Char)).ok
    /\ CountIn(arg, B64Chars \ {61}) >= 2

HexVal(c) == IF c \in 48..57 THEN c - 48 ELSE c - 97 + 10

IsLowerHex(s) == \A i \in 1..Len(s) : s[i] \in 48..57 \/ s[i] \in 97..102

\* bytes.fromhex
FromHex(s) == [i \in 1..(Len(s) \div 2) |-> 16 * HexVal(s[2 * i - 1]) + HexVal(s[2 * i])]

\* C4: the standard Base64 encoding of a byte string decodes to its UTF-8
\* text with kind text when the bytes are valid UTF-8, and otherwise to
\* their lowercase hexadecimal rendering with kind hex, from which the
\* bytes are recovered.
C4_RoundTrip ==
    pc = "ret" =>
        LET u == utf8_decode(b)
        IN  IF u.ok THEN ret = Payload(u.text, "text")
            ELSE /\ ret.kind = "hex"
                 /\ Len(ret.text) = 2 * Len(b)
                 /\ IsLowerHex(ret.text)
                 /\ FromHex(ret.text) = b

\* bytes that are not UTF-8 and need padding come back as hex with letters
C4_Witness ==
    /\ pc = "ret"
    /\ ret.kind = "hex"
    /\ Len(b) = 2
    /\ \E i \in 1..Len(ret.text) : ret.text[i] \in 97..102

\* enc is "base64" up to the case of its letters
EqualsBase64IgnoringCase(enc) ==
    /\ Len(enc) = Len(S_base64)
    /\ \A i \in 1..Len(enc) :
           \/ enc[i] = S_base64[i]
           \/ S_base64[i] \in 97..122 /\ enc[i] = S_base64[i] - 32

\* C5: extract_node_text yields the (None, None) pair for None; for a node
\* whose encoding attribute is "base64" in any case it yields
\* try_decode_base64 of the joined text whatever the classifier says;
\* otherwise try_decode_base64 of the joined text when the classifier
\* accepts it, and else the trimmed text with kind text, so that such a
\* node is never raw or hex.
C5_Precedence ==
    pc = "ret" =>
        IF arg.null THEN ret = NullPayload
        ELSE LET c == Flatten(arg.strings)
                 declared == arg.enc # None /\ EqualsBase64IgnoringCase(arg.enc[1])
             IN  /\ declared => ret = try_decode_base64(c)
                 /\ (~declared /\ is_likely_base64(c)) => ret = try_decode_base64(c)
                 /\ (~declared /\ ~is_likely_base64(c)) => ret = Payload(Strip(c), "text")
                 /\ (arg.enc = None /\ ~is_likely_base64(c)) => ret.kind = "text"

\* a declared BASE64 node whose text the classifier rejects is still decoded
C5_Witness ==
    /\ pc = "ret"
    /\ ~arg.null
    /\ arg.enc = Some(<<66, 65, 83, 69, 54, 52>>)
    /\ ~is_likely_base64(Flatten(arg.strings))
    /\ ret.kind = "text"
    /\ ret.text # Strip(Flatten(arg.strings))

\* the parents of the document as parsed
Parents0(doc) == [i \in 1..Len(doc) |-> doc[i].parent]

\* the loops have run: entries holds the report
Rendered == \/ pc \in {"write", "done"}
            \/ pc = "crashed" /\ err = "open(outfile)"

HasElem(doc, name) == \E i \in 1..Len(doc) : doc[i].name = name

\* the entry add_entry builds for element n of the document as parsed
EntryOf(k, doc, n) ==
    add_entry(k, doc, Parents0(doc), Tail(Subtree(doc, Parents0(doc), n)))

\* C6: when the document holds an item element the entries are those of
\* its item elements in document order and nothing else; when it holds
\* none but holds attackitem, row or requestitem elements, the entries are
\* those of all attackitem elements, then all row elements, then all
\* requestitem elements.
C6_Selection ==
    Rendered =>
        LET doc == xml.elems
            its == find_all(doc, "item")
            union == find_all(doc, "attackitem") \o find_all(doc, "row")
                     \o find_all(doc, "requestitem")
        IN  /\ HasElem(doc, "item") =>
                entries = [k \in 1..Len(its) |-> EntryOf(k, doc, its[k])]
            /\ (~HasElem(doc, "item") /\ union # <<>>) =>
                entries = [k \in 1..Len(union) |-> EntryOf(k, doc, union[k])]

\* a row that precedes an attackitem in the document follows it in the report
C6_Witness ==
    /\ Rendered
    /\ Len(xml.elems) = 3
    /\ xml.elems[1].name = "row"
    /\ xml.elems[2].name = "request"
    /\ xml.elems[2].parent = 1
    /\ xml.elems[3].name = "attackitem"
    /\ Len(entries) = 2
    /\ entries[1].request = None
    /\ entries[2].request # None

NoContainer(doc) ==
    /\ ~HasElem(doc, "item")
    /\ ~HasElem(doc, "attackitem")
    /\ ~HasElem(doc, "row")
    /\ ~HasElem(doc, "requestitem")

RECURSIVE WrapUpTo(_, _, _)
\* the parents once the wrappers of pairs 1..k are filled
WrapUpTo(par, pairs, k) ==
    IF k = 0 THEN par ELSE Wrap(WrapUpTo(par, pairs, k - 1), k, pairs[k])

\* C7: in a document without item, attackitem, row and requestitem
\* elements but with r request and s response elements, min(r, s) >= 1,
\* the report holds min(r, s) entries, and entry k is labelled Item #k,
\* its Request block shows the payload of the k-th request element and its
\* Response block the payload of the k-th response element.
C7_Pairing ==
    LET doc == xml.elems
        rs == find_all(doc, "request")
        ss == find_all(doc, "response")
        n == Min(Len(rs), Len(ss))
    IN  (Rendered /\ NoContainer(doc) /\ n >= 1) =>
            /\ Len(entries) = n
            /\ \A k \in 1..n :
                 LET par == WrapUpTo(Parents0(doc), Pairs(doc), k)
                 IN  /\ entries[k].hdr # None
                     /\ entries[k].hdr[1].label = k
                     /\ entries[k].request = add_block(doc, par, "Request", rs[k])
                     /\ entries[k].response = add_block(doc, par, "Response", ss[k])

IsPlaceholder(e) ==
    /\ e.hdr = None
    /\ e.request = None
    /\ e.response = None
    /\ e.msg # None

NoData(doc) == NoContainer(doc) /\ (~HasElem(doc, "request") \/ ~HasElem(doc, "response"))

\* C8 as stated: for a document without item, attackitem, row and
\* requestitem elements and without a request/response pair, the report
\* holds the placeholder entry alone, the output file is written and the
\* process exits 0.
C8_AsStated ==
    (Rendered /\ pc # "write" /\ NoData(xml.elems)) =>
        /\ Len(entries) = 1
        /\ IsPlaceholder(entries[1])
        /\ outfile = Some(entries)
        /\ exitCode = 0

\* C8 as amended: for such a document the report holds the placeholder
\* entry alone, and the run ends with the output file written and exit
\* status 0 unless opening the output file fails.
C8_NoData ==
    (Rendered /\ NoData(xml.elems)) =>
        /\ Len(entries) = 1
        /\ IsPlaceholder(entries[1])
        /\ pc = "done" => (outfile = Some(entries) /\ exitCode = 0 /\ err = "none")
        /\ pc = "crashed" => err = "open(outfile)"

\* a document of status elements only ends in a written placeholder
C8_Witness ==
    /\ pc = "done"
    /\ Len(xml.elems) = 2
    /\ NoData(xml.elems)
    /\ HasElem(xml.elems, "status")
    /\ HasElem(xml.elems, "request")
    /\ outfile = Some(<<NoDataEntry>>)
    /\ exitCode = 0

InSeq(x, s) == \E i \in 1..Len(s) : s[i] = x

\* C9: with a number of positional arguments other than two the program
\* prints a usage message to standard error and exits with status 1
\* without opening the input file or creating the output file.
C9_UsageError ==
    (argc # 2 /\ pc # "start") =>
        /\ pc = "exited"
        /\ InSeq("Usage", stderr)
        /\ exitCode = 1
        /\ opened = {}
        /\ outfile = None

\* C10 as stated: a run with two arguments ends abnormally only when the
\* input file cannot be read or the XML is malformed; every other run
\* writes the report, prints the confirmation and exits 0.
C10_AsStated ==
    argc = 2 =>
        /\ pc = "crashed" =>
              \/ err = "open(infile)"
              \/ err = "BeautifulSoup(xml)" /\ ~xml.wellformed
        /\ pc # "exited"
        /\ pc = "done" =>
              /\ err = "none"
              /\ exitCode = 0
              /\ outfile = Some(entries)
              /\ InSeq("Wrote", stdout)
              /\ Len(entries) >= 1

\* C10 as amended: a run with two arguments ends abnormally only when the
\* input file cannot be read, the XML is malformed or the output file
\* cannot be opened for writing; every other run writes the report, prints
\* the confirmation and exits 0.
C10_HardFailures ==
    argc = 2 =>
        /\ pc = "crashed" =>
              \/ err = "open(infile)"
              \/ err = "BeautifulSoup(xml)" /\ ~xml.wellformed
              \/ err = "open(outfile)"
        /\ pc # "exited"
        /\ pc = "done" =>
              /\ err = "none"
              /\ exitCode = 0
              /\ outfile = Some(entries)
              /\ InSeq("Wrote", stdout)
              /\ Len(entries) >= 1

\* a run whose payloads do not decode ends with the report written
C10_Witness ==
    /\ pc = "done"
    /\ exitCode = 0
    /\ \E k \in 1..Len(entries) :
           /\ entries[k].response # None
           /\ entries[k].response[1].badge = Some("raw")
           /\ entries[k].request = None

=============================================================================
